---- MODULE Spec2Model ----
(***************************************************************************)
(* Model of src/consistent-hash.js: the ConsistentHash ring.               *)
(*                                                                         *)
(* JavaScript values are encoded as follows.                               *)
(*   - nodes are strings; the value `undefined` read from a missing        *)
(*     property is the string Undefined, `null` is the string Null;        *)
(*   - control points are integers; the property name "undefined" of       *)
(*     _keyMap (what _keyMap[points[i]] writes when points[i] is missing)  *)
(*     is the integer UndefKey;                                            *)
(*   - arrays are sequences; code indexes are 0-based, so array[i] of the  *)
(*     source is array[i + 1] here;                                        *)
(*   - `_keys = null` is the sequence NullKeys, which no built index       *)
(*     equals;                                                             *)
(*   - strings are sequences of UTF-16 code units.                         *)
(***************************************************************************)
EXTENDS Integers, Sequences, FiniteSets

\* ----------------------------------------------------------------- bounds
\* registrations held at once
MaxRegs == 2
\* keyCount is kept within -MaxKeyCount .. MaxKeyCount
MaxKeyCount == 2
\* the largest weight of an add that is followed draw by draw
MaxBatch == 2
\* the control points held at once when adds are followed draw by draw
MaxAllocKeys == 3
\* the longest array given to _absearch
MaxArrayLen == 54
\* the longest string given to _hash on its own
MaxNameLen == 7

\* ------------------------------------------------------- program constants
\* this._range after new ConsistentHash({range: 3})
_range == 3
\* `++attemptCount < 10` in _makeControlPoints
RetryLimit == 10
\* `gap = 25` in _absearch
Gap == 25

Nodes == {"A", "B"}
Undefined == "undefined"
Null == "null"
Self == "this"
UndefKey == -1
NullKeys == <<-1>>

PointValues == 0 .. (_range - 1)
KeyDomain == PointValues \cup {UndefKey}

\* lookup names: the empty string, one-character names whose codes cover every
\* residue modulo _range, and a two-character name
Names == {<<>>, <<97, 98>>} \cup {<<97 + c>> : c \in PointValues}

\* the weights n passed to add; 0 stands for an omitted weight
Weights == {0, 1, 2}

\* the explicit control-point lists passed to add
PointLists == {<<>>, <<2, 0>>}

\* the fields of the ring, the last call made on it (its operation and, for
\* remove, the rounds its loop ran), the value that call returned, and the
\* local variables of a helper (_makeControlPoints, _absearch, _hash) that is
\* followed step by step
VARIABLES _nodes, _nodeKeys, _keyMap, _keys, nodeCount, keyCount, call, ret, frame

vars == <<_nodes, _nodeKeys, _keyMap, _keys, nodeCount, keyCount, call, ret, frame>>

\* no helper is being followed
Idle == [fn |-> "none"]

\* --------------------------------------------------------------- helpers

\* array[i] of the source for a 0-based i: undefined outside the array
At(array, i) == IF i >= 0 /\ i < Len(array) THEN array[i + 1] ELSE UndefKey

\* Array.prototype.indexOf, 0-based, -1 when absent
RECURSIVE IndexFrom(_, _, _)
IndexFrom(array, x, i) ==
    IF i >= Len(array) THEN -1
    ELSE IF array[i + 1] = x THEN i
    ELSE IndexFrom(array, x, i + 1)

indexOf(array, x) == IndexFrom(array, x, 0)

\* array.length -= 1
DropLast(array) == SubSeq(array, 1, Len(array) - 1)

\* _copy of an array: a new array with the same elements
_copy(o) == [i \in 1 .. Len(o) |-> o[i]]

\* --------------------------------------------------------------- _hash

\* x ^ y for 0 <= x, y < 16
Xor4(x, y) ==
    LET bit(v, k) == (v \div (2 ^ k)) % 2
    IN  ((bit(x, 0) + bit(y, 0)) % 2)
        + 2 * ((bit(x, 1) + bit(y, 1)) % 2)
        + 4 * ((bit(x, 2) + bit(y, 2)) % 2)
        + 8 * ((bit(x, 3) + bit(y, 3)) % 2)

\* h << 4 on a 32-bit integer: the low 28 bits move up, bit 27 becomes the sign
ShiftLeft4(h) ==
    LET low == h % 134217728                      \* the bits below bit 27
        sign == (h \div 134217728) % 2            \* bit 27
    IN  low * 16 - sign * 1073741824 - sign * 1073741824

\* the round without the `if (g)` block: the four bits are never folded back
HashStepNoFold(h, c) == ShiftLeft4(h) + c

\* one round of the loop of _pjwHash
HashStep(h, c) ==
    LET h1 == ShiftLeft4(h) + c
        \* g = h & 0xf000000, as its 4-bit value g >>> 24 (0x1000000 = 16777216)
        nib == (h1 \div 16777216) % 16
        \* h ^= g clears the four bits
        h2 == h1 - nib * 16777216
        \* h ^= (g >>> 24)
        h3 == h2 - (h2 % 16) + Xor4(h2 % 16, nib)
    IN  IF nib # 0 THEN h3 ELSE h1

RECURSIVE HashFrom(_, _, _)
HashFrom(s, i, h) ==
    IF i >= Len(s) THEN h ELSE HashFrom(s, i + 1, HashStep(h, s[i + 1]))

_hash(s) == HashFrom(s, 0, 0)

\* s.charCodeAt(i): the code units the strings hashed on their own are made of
CharCodes == {0, 97, 65535}

\* the strings of up to MaxNameLen code units
HashInputs == UNION {[1 .. len -> CharCodes] : len \in 0 .. MaxNameLen}

\* _pjwHash(s) is entered: `var len = s.length`, `var g, h = 0`, `i = 0`
HashBegin(s) ==
    /\ frame' = [fn |-> "_hash", s |-> s, i |-> 0, h |-> 0, returned |-> FALSE]
    /\ UNCHANGED <<_nodes, _nodeKeys, _keyMap, _keys, nodeCount, keyCount, call, ret>>

\* one round of the for loop
HashRound ==
    /\ frame.fn = "_hash"
    /\ ~frame.returned
    /\ frame.i < Len(frame.s)
    /\ frame' = [frame EXCEPT !.h = HashStep(frame.h, frame.s[frame.i + 1]),
                              !.i = frame.i + 1]
    /\ UNCHANGED <<_nodes, _nodeKeys, _keyMap, _keys, nodeCount, keyCount, call, ret>>

\* `return h` when the loop is over
HashReturn ==
    /\ frame.fn = "_hash"
    /\ ~frame.returned
    /\ frame.i >= Len(frame.s)
    /\ frame' = [frame EXCEPT !.returned = TRUE]
    /\ UNCHANGED <<_nodes, _nodeKeys, _keyMap, _keys, nodeCount, keyCount, call, ret>>

\* the caller takes the hash and goes on
HashDone ==
    /\ frame.fn = "_hash"
    /\ frame.returned
    /\ frame' = Idle
    /\ UNCHANGED <<_nodes, _nodeKeys, _keyMap, _keys, nodeCount, keyCount, call, ret>>

\* --------------------------------------------------------------- _absearch

\* the bisection with `array[mid] <= key` in place of `array[mid] < key`
RECURSIVE BisectPastEqual(_, _, _, _)
BisectPastEqual(array, key, i, j) ==
    IF j - i > Gap
    THEN LET mid == (i + j) \div 2
         IN  IF array[mid + 1] <= key
             THEN BisectPastEqual(array, key, mid + 1, j)
             ELSE BisectPastEqual(array, key, i, mid)
    ELSE i

RECURSIVE Bisect(_, _, _, _)
Bisect(array, key, i, j) ==
    IF j - i > Gap
    THEN LET mid == (i + j) \div 2
         IN  IF array[mid + 1] < key
             THEN Bisect(array, key, mid + 1, j)
             ELSE Bisect(array, key, i, mid)
    ELSE i

RECURSIVE Scan(_, _, _)
Scan(array, key, i) ==
    IF i < Len(array)
    THEN IF array[i + 1] >= key THEN i ELSE Scan(array, key, i + 1)
    ELSE IF Len(array) = 0 THEN -1 ELSE 0

_absearch(array, key) == Scan(array, key, Bisect(array, key, 0, Len(array) - 1))

\* the arrays _absearch is called with: the ascending arrays of point values,
\* duplicates included, each given by how often every value occurs
RECURSIVE CountSum(_, _)
CountSum(counts, v) ==
    IF v >= _range THEN 0 ELSE counts[v] + CountSum(counts, v + 1)

RECURSIVE Ascending(_, _)
Ascending(counts, v) ==
    IF v >= _range THEN <<>>
    ELSE [j \in 1 .. counts[v] |-> v] \o Ascending(counts, v + 1)

SortedArrays ==
    {Ascending(counts, 0) :
        counts \in {c \in [PointValues -> 0 .. MaxArrayLen] : CountSum(c, 0) <= MaxArrayLen}}

\* the keys searched for: every point value and one above them all
SearchKeys == 0 .. _range

\* a call _absearch(array, key) up to its return statement
Search(array, key) ==
    /\ frame' = [fn |-> "_absearch", array |-> array, key |-> key,
                 result |-> _absearch(array, key)]
    /\ UNCHANGED <<_nodes, _nodeKeys, _keyMap, _keys, nodeCount, keyCount, call, ret>>

\* the caller takes the index and goes on
SearchReturn ==
    /\ frame.fn = "_absearch"
    /\ frame' = Idle
    /\ UNCHANGED <<_nodes, _nodeKeys, _keyMap, _keys, nodeCount, keyCount, call, ret>>

\* --------------------------------------------------------------- _buildKeys

RECURSIVE Flatten(_, _)
Flatten(nodeKeys, i) ==
    IF i >= Len(nodeKeys) THEN <<>> ELSE nodeKeys[i + 1] \o Flatten(nodeKeys, i + 1)

\* keys.sort(function(a,b){ return a - b }): numerically ascending
RECURSIVE Insert(_, _)
Insert(sorted, x) ==
    IF sorted = <<>> THEN <<x>>
    ELSE IF x < Head(sorted) THEN <<x>> \o sorted
    ELSE <<Head(sorted)>> \o Insert(Tail(sorted), x)

RECURSIVE SortAsc(_)
SortAsc(array) ==
    IF array = <<>> THEN <<>>
    ELSE Insert(SortAsc(SubSeq(array, 1, Len(array) - 1)), array[Len(array)])

\* _buildKeys without the keys.sort call
_buildKeysUnsorted(nodeKeys) == Flatten(nodeKeys, 0)

_buildKeys(nodeKeys) == SortAsc(Flatten(nodeKeys, 0))

\* --------------------------------------------------------------- get

\* a % b of JavaScript for b > 0: the result takes the sign of a
JsRem(a, b) == IF a >= 0 THEN a % b ELSE 0 - ((0 - a) % b)

\* `if (!this._keys) this._buildKeys()`: the index get searches and caches
KeysForGet(nodeKeys, keys) == IF keys = NullKeys THEN _buildKeys(nodeKeys) ELSE keys

\* get searching the control points as registered when it has to build the
\* index, and the sorted index when it is cached
GetResultUnsortedFirst(nodeKeys, keyMap, keys, kc, name) ==
    LET ks == IF keys = NullKeys THEN Flatten(nodeKeys, 0) ELSE keys
        h == JsRem(_hash(name), _range)
        index == _absearch(ks, h)
    IN  IF kc = 0 THEN Null ELSE keyMap[At(ks, index)]

\* the value get(name) returns
GetResult(nodeKeys, keyMap, keys, kc, name) ==
    LET ks == KeysForGet(nodeKeys, keys)
        h == JsRem(_hash(name), _range)
        index == _absearch(ks, h)
    IN  IF kc = 0 THEN Null ELSE keyMap[At(ks, index)]

Get(name) ==
    /\ _keys' = KeysForGet(_nodeKeys, _keys)
    /\ ret' = GetResult(_nodeKeys, _keyMap, _keys, keyCount, name)
    /\ call' = [op |-> "get", removed |-> 0]
    /\ UNCHANGED <<_nodes, _nodeKeys, _keyMap, nodeCount, keyCount, frame>>

\* --------------------------------------------------------------- add

\* the condition of the do-while of _makeControlPoints for a drawn key while
\* point i of the batch is chosen: `points[key] !== undefined` reads the batch
\* array at index key, which is filled exactly for the indexes below i
Collides(keyMap, key, i) == keyMap[key] # Undefined \/ key < i

\* the do-while of _makeControlPoints for point i entered with attemptCount:
\* every <<key, attemptCount>> it can leave with, over all draws of Math.random
RECURSIVE Draw(_, _, _)
Draw(keyMap, i, attemptCount) ==
    LET coll == {key \in PointValues : Collides(keyMap, key, i)}
    IN  {<<key, attemptCount>> : key \in PointValues \ coll}
        \cup IF attemptCount + 1 < RetryLimit
             THEN IF coll # {} THEN Draw(keyMap, i, attemptCount + 1) ELSE {}
             ELSE {<<key, attemptCount + 1>> : key \in coll}

\* the for loop of _makeControlPoints from point i on: every array it can return
RECURSIVE MakeFrom(_, _, _, _, _)
MakeFrom(keyMap, n, i, points, attemptCount) ==
    IF i >= n THEN {points}
    ELSE UNION {MakeFrom(keyMap, n, i + 1, Append(points, d[1]), d[2]) :
                    d \in Draw(keyMap, i, attemptCount)}

_makeControlPoints(keyMap, n) == MakeFrom(keyMap, n, 0, <<>>, 0)

\* `for (i=0; i<n; i++) this._keyMap[points[i]] = node`
MapPoints(keyMap, points, n, node) ==
    [k \in KeyDomain |->
        IF \E i \in 0 .. (n - 1) : At(points, i) = k THEN node ELSE keyMap[k]]

\* add without `n = n || 1`
DefaultWeightMissing(n0) == n0

\* `n = n || 1`: an omitted weight (0 here) is 1
DefaultWeight(n0) == IF n0 = 0 THEN 1 ELSE n0

\* what add does with the control points it has copied or drawn
Register(node, n, pts) ==
    /\ _nodes' = Append(_nodes, node)
    /\ _nodeKeys' = Append(_nodeKeys, pts)
    /\ _keyMap' = MapPoints(_keyMap, pts, n, node)
    /\ _keys' = NullKeys
    /\ keyCount' = keyCount + n
    /\ nodeCount' = nodeCount + 1
    /\ ret' = Self
    /\ call' = [op |-> "add", removed |-> 0]

\* add(node, n0, points); explicit says whether points is an array
AddWith(node, n0, explicit, points) ==
    LET n == DefaultWeight(n0)
    IN  /\ Len(_nodes) < MaxRegs
        /\ keyCount + n <= MaxKeyCount
        /\ \E pts \in (IF explicit THEN {_copy(points)}
                       ELSE _makeControlPoints(_keyMap, n)) :
              Register(node, n, pts)
        /\ UNCHANGED frame

\* add(node, n) and add(node): control points drawn by _makeControlPoints
AddWeighted(node, n0) == AddWith(node, n0, FALSE, <<>>)

\* add(node, n, points) with an array of control points
AddPoints(node, n0, points) == AddWith(node, n0, TRUE, points)

\* ------------------------------------- add(node, n), one draw at a time

\* add(node, n0) enters _makeControlPoints. The ring holds no registration at
\* that moment: the control points of removed registrations are still keys of
\* _keyMap, which is all that _makeControlPoints reads of the ring.
AllocBegin(node, n0) ==
    /\ frame = Idle
    /\ Len(_nodes) < MaxRegs
    /\ keyCount + DefaultWeight(n0) <= MaxAllocKeys
    /\ frame' = [fn |-> "_makeControlPoints", node |-> node, n0 |-> n0,
                 n |-> DefaultWeight(n0), i |-> 0, points |-> <<>>,
                 attemptCount |-> 0,
                 \* the draws made so far for point i
                 draws |-> 0,
                 \* of the point chosen last: the draws it took, whether its
                 \* value was a key of _keyMap, whether an earlier point of
                 \* the batch has the same value
                 took |-> 0, used |-> FALSE, twice |-> FALSE]
    /\ UNCHANGED <<_nodes, _nodeKeys, _keyMap, _keys, nodeCount, keyCount, call, ret>>

\* one round of the do-while of _makeControlPoints in which Math.random
\* gives key, with `++attemptCount < 15` in place of `++attemptCount < 10`
AllocDrawLateCap(key) ==
    /\ frame.fn = "_makeControlPoints"
    /\ frame.i < frame.n
    /\ LET collides == Collides(_keyMap, key, frame.i)
           attemptCount == IF collides THEN frame.attemptCount + 1
                           ELSE frame.attemptCount
       IN  IF collides /\ attemptCount < RetryLimit + 5
           THEN frame' = [frame EXCEPT !.attemptCount = attemptCount,
                                       !.draws = frame.draws + 1]
           ELSE frame' = [frame EXCEPT !.attemptCount = attemptCount,
                                       !.points = Append(frame.points, key),
                                       !.i = frame.i + 1,
                                       !.draws = 0,
                                       !.took = frame.draws + 1,
                                       !.used = _keyMap[key] # Undefined,
                                       !.twice = key \in {frame.points[j] :
                                                     j \in 1 .. Len(frame.points)}]
    /\ UNCHANGED <<_nodes, _nodeKeys, _keyMap, _keys, nodeCount, keyCount, call, ret>>

\* one round of the do-while of _makeControlPoints in which Math.random
\* gives key
AllocDraw(key) ==
    /\ frame.fn = "_makeControlPoints"
    /\ frame.i < frame.n
    /\ LET collides == Collides(_keyMap, key, frame.i)
           \* `++attemptCount` runs only when the first operand of && holds
           attemptCount == IF collides THEN frame.attemptCount + 1
                           ELSE frame.attemptCount
       IN  IF collides /\ attemptCount < RetryLimit
           THEN frame' = [frame EXCEPT !.attemptCount = attemptCount,
                                       !.draws = frame.draws + 1]
           ELSE frame' = [frame EXCEPT !.attemptCount = attemptCount,
                                       !.points = Append(frame.points, key),
                                       !.i = frame.i + 1,
                                       !.draws = 0,
                                       !.took = frame.draws + 1,
                                       !.used = _keyMap[key] # Undefined,
                                       !.twice = key \in {frame.points[j] :
                                                     j \in 1 .. Len(frame.points)}]
    /\ UNCHANGED <<_nodes, _nodeKeys, _keyMap, _keys, nodeCount, keyCount, call, ret>>

\* _makeControlPoints returns its n points and add registers them
AllocReturn ==
    /\ frame.fn = "_makeControlPoints"
    /\ frame.i >= frame.n
    /\ Register(frame.node, frame.n, frame.points)
    /\ frame' = Idle

\* --------------------------------------------------------------- remove

\* remove with `if` in place of `while`: one round at most
RemoveFirstOnly(r, node) ==
    LET ix == indexOf(r.nodes, node)
    IN  IF ix < 0 THEN r
        ELSE LET keys == r.nodeKeys[ix + 1]
                 last == Len(r.nodes)
             IN  [nodes |-> DropLast([r.nodes EXCEPT ![ix + 1] = r.nodes[last]]),
                  nodeKeys |-> DropLast([r.nodeKeys EXCEPT ![ix + 1] = r.nodeKeys[last]]),
                  keys |-> NullKeys,
                  keyCount |-> r.keyCount - Len(keys),
                  nodeCount |-> r.nodeCount - 1,
                  removed |-> r.removed + 1]

\* remove without `this._nodeKeys[ix] = this._nodeKeys[this._nodeKeys.length - 1]`
RECURSIVE RemoveLoopKeysNotMoved(_, _)
RemoveLoopKeysNotMoved(r, node) ==
    LET ix == indexOf(r.nodes, node)
    IN  IF ix < 0 THEN r
        ELSE LET keys == r.nodeKeys[ix + 1]
                 last == Len(r.nodes)
             IN  RemoveLoopKeysNotMoved(
                     [nodes |-> DropLast([r.nodes EXCEPT ![ix + 1] = r.nodes[last]]),
                      nodeKeys |-> DropLast(r.nodeKeys),
                      keys |-> NullKeys,
                      keyCount |-> r.keyCount - Len(keys),
                      nodeCount |-> r.nodeCount - 1,
                      removed |-> r.removed + 1],
                     node)

\* remove shrinking both lists without moving the last entry to index ix
RECURSIVE RemoveLoopDropsLast(_, _)
RemoveLoopDropsLast(r, node) ==
    LET ix == indexOf(r.nodes, node)
    IN  IF ix < 0 THEN r
        ELSE LET keys == r.nodeKeys[ix + 1]
             IN  RemoveLoopDropsLast(
                     [nodes |-> DropLast(r.nodes),
                      nodeKeys |-> DropLast(r.nodeKeys),
                      keys |-> NullKeys,
                      keyCount |-> r.keyCount - Len(keys),
                      nodeCount |-> r.nodeCount - 1,
                      removed |-> r.removed + 1],
                     node)

\* the while loop of remove on the ring r, counting its rounds in r.removed
RECURSIVE RemoveLoop(_, _)
RemoveLoop(r, node) ==
    LET ix == indexOf(r.nodes, node)
    IN  IF ix < 0 THEN r
        ELSE LET keys == r.nodeKeys[ix + 1]
                 last == Len(r.nodes)
             IN  RemoveLoop(
                     [nodes |-> DropLast([r.nodes EXCEPT ![ix + 1] = r.nodes[last]]),
                      nodeKeys |-> DropLast([r.nodeKeys EXCEPT ![ix + 1] = r.nodeKeys[last]]),
                      keys |-> NullKeys,
                      keyCount |-> r.keyCount - Len(keys),
                      nodeCount |-> r.nodeCount - 1,
                      removed |-> r.removed + 1],
                     node)

Removed(node) ==
    RemoveLoop([nodes |-> _nodes, nodeKeys |-> _nodeKeys, keys |-> _keys,
                keyCount |-> keyCount, nodeCount |-> nodeCount, removed |-> 0], node)

\* remove with `this._keys = null` outside the loop
RemoveInvalidates(node) ==
    LET r == Removed(node)
    IN  /\ r.keyCount >= -MaxKeyCount
        /\ _nodes' = r.nodes
        /\ _nodeKeys' = r.nodeKeys
        /\ _keys' = NullKeys
        /\ keyCount' = r.keyCount
        /\ nodeCount' = r.nodeCount
        /\ ret' = Self
        /\ call' = [op |-> "remove", removed |-> r.removed]
        /\ UNCHANGED <<_keyMap, frame>>

Remove(node) ==
    LET r == Removed(node)
    IN  /\ r.keyCount >= -MaxKeyCount
        /\ _nodes' = r.nodes
        /\ _nodeKeys' = r.nodeKeys
        /\ _keys' = r.keys
        /\ keyCount' = r.keyCount
        /\ nodeCount' = r.nodeCount
        /\ ret' = Self
        /\ call' = [op |-> "remove", removed |-> r.removed]
        /\ UNCHANGED <<_keyMap, frame>>

\* --------------------------------------------------------------- the ring

\* new ConsistentHash({range: _range})
Init ==
    /\ _nodes = <<>>
    /\ _nodeKeys = <<>>
    /\ _keyMap = [k \in KeyDomain |-> Undefined]
    /\ _keys = NullKeys
    /\ nodeCount = 0
    /\ keyCount = 0
    /\ call = [op |-> "new", removed |-> 0]
    /\ ret = Self
    /\ frame = Idle

\* drawn control points come one to a call here (weight omitted or 1); lists of
\* two points, and weights that differ from the list length, come from the
\* calls with explicit points
Next ==
    \/ \E node \in Nodes, n0 \in {0, 1} : AddWeighted(node, n0)
    \/ \E node \in Nodes, n0 \in Weights, points \in PointLists :
           AddPoints(node, n0, points)
    \/ \E node \in Nodes : Remove(node)
    \/ \E name \in Names : Get(name)

Spec == Init /\ [][Next]_vars

\* remove between two calls of add
AllocRemove(node) == frame = Idle /\ Remove(node)

\* the steps of a running add: the call runs on until it returns
AllocRun == (\E key \in PointValues : AllocDraw(key)) \/ AllocReturn

AllocNext ==
    \/ \E node \in Nodes, n0 \in 0 .. MaxBatch : AllocBegin(node, n0)
    \/ \E key \in PointValues : AllocDraw(key)
    \/ AllocReturn
    \/ \E node \in Nodes : AllocRemove(node)

\* add(node, n) and remove(node) on a ring, every add followed through the
\* draws of _makeControlPoints
SpecAlloc == Init /\ [][AllocNext]_vars /\ WF_vars(AllocRun)

\* _absearch alone, on every ascending array up to MaxArrayLen entries
SearchNext ==
    \/ /\ frame = Idle
       /\ \E array \in SortedArrays, key \in SearchKeys : Search(array, key)
    \/ SearchReturn

SpecSearch == Init /\ [][SearchNext]_vars

\* _hash alone, round by round, on every string of HashInputs
HashNext ==
    \/ /\ frame = Idle
       /\ \E s \in HashInputs : HashBegin(s)
    \/ HashRound
    \/ HashReturn
    \/ HashDone

SpecHash == Init /\ [][HashNext]_vars

\* ------------------------------------------------------------- properties

\* the result of get(name) in the current ring and in the ring after a step
GetNow(name) == GetResult(_nodeKeys, _keyMap, _keys, keyCount, name)
GetAfter(name) == GetResult(_nodeKeys', _keyMap', _keys', keyCount', name)

Elems(array) == {array[i] : i \in 1 .. Len(array)}

RECURSIVE SumLens(_, _)
SumLens(nodeKeys, i) ==
    IF i >= Len(nodeKeys) THEN 0 ELSE Len(nodeKeys[i + 1]) + SumLens(nodeKeys, i + 1)

\* the control points registered in the ring, with repetitions
AllPoints == Flatten(_nodeKeys, 0)

PairwiseDistinct(array) ==
    \A i, j \in 1 .. Len(array) : i # j => array[i] # array[j]

\* the node whose registration holds control point p
OwnerOf(p) ==
    _nodes[CHOOSE i \in 1 .. Len(_nodes) : p \in Elems(_nodeKeys[i])]

\* the control point a position h of the ring resolves to: the smallest one
\* that is >= h, or the smallest of all when none is
Successor(h) ==
    LET pts == Elems(AllPoints)
        ahead == {p \in pts : p >= h}
        from == IF ahead # {} THEN ahead ELSE pts
    IN  CHOOSE p \in from : \A q \in from : p <= q

\* C1: once get has returned, its result is a node whenever keyCount > 0 and
\* null whenever keyCount = 0.
C1_GetTotal ==
    call.op = "get" =>
        /\ keyCount > 0 => ret \in Nodes
        /\ keyCount = 0 => ret = Null

\* C2: in a ring whose registered control points are pairwise distinct, get of
\* a name at position h = hash mod range returns the node registered at the
\* smallest control point >= h, or at the smallest control point of the ring
\* when none is >= h.
C2_CircularLookup ==
    (AllPoints # <<>> /\ PairwiseDistinct(AllPoints)) =>
        \A name \in Names : GetNow(name) = OwnerOf(Successor(_hash(name) % _range))

\* C3: remove(C) changes the get result of no name that resolved to a node
\* other than C before the call.
C3_StableUnderRemove ==
    [][\A C \in Nodes : (call'.op = "remove" /\ Remove(C)) =>
          \A name \in Names :
              (GetNow(name) \in Nodes \ {C}) => GetAfter(name) = GetNow(name)]_vars

\* C4: after add(N, ...) every name has the get result it had before or
\* resolves to N.
C4_StableUnderAdd ==
    [][call'.op = "add" =>
          \A name \in Names :
              GetAfter(name) \in {GetNow(name), _nodes'[Len(_nodes')]}]_vars

\* C5: one remove(X) of a node registered k >= 1 times leaves no entry of
\* nodes equal to X, lowers nodeCount by k and lowers keyCount by the summed
\* lengths of the control-point lists of those k registrations.
C5_RemoveAll ==
    [][\A X \in Nodes : (call'.op = "remove" /\ Remove(X) /\ X \in Elems(_nodes)) =>
          LET regs == {i \in 1 .. Len(_nodes) : _nodes[i] = X}
              lens == SumLens([i \in 1 .. Len(_nodes) |->
                                  IF i \in regs THEN _nodeKeys[i] ELSE <<>>], 0)
          IN  /\ X \notin Elems(_nodes')
              /\ nodeCount' = nodeCount - Cardinality(regs)
              /\ keyCount' = keyCount - lens]_vars

\* a remove has deleted two registrations of one node in one call
C5_Witness == call.op = "remove" /\ call.removed >= 2

\* C6: keyCount is the summed length of the control-point lists of _nodeKeys.
C6_KeyCountIsSum == keyCount = SumLens(_nodeKeys, 0)

\* C7: a get changes none of _nodes, _nodeKeys, _keyMap, nodeCount, keyCount,
\* at most builds the absent sorted index, returns what the ring resolves the
\* name to, and leaves the result of every later get as it was.
C7_GetPure ==
    [][call'.op = "get" =>
          /\ UNCHANGED <<_nodes, _nodeKeys, _keyMap, nodeCount, keyCount>>
          /\ _keys' = _keys \/ _keys = NullKeys
          /\ \E name \in Names : ret' = GetNow(name)
          /\ \A name \in Names : GetAfter(name) = GetNow(name)]_vars

\* a get has built the index of a ring of two registrations and returned a node
C7_Witness ==
    call.op = "get" /\ ret \in Nodes /\ Len(_nodes) >= 2 /\ _keys # NullKeys

\* C8: get returns null for every name on a ring without registrations, and
\* after one add of a node to such a ring get returns that node for every name.
C8_EmptyThenPopulated ==
    [][_nodes = <<>> =>
          /\ \A name \in Names : GetNow(name) = Null
          /\ call'.op = "add" =>
                 \A name \in Names : GetAfter(name) = _nodes'[Len(_nodes')]]_vars

\* C9: remove of a node without a registration returns the ring and changes
\* none of _nodes, _nodeKeys, _keyMap, _keys, nodeCount, keyCount.
C9_RemoveUnknown ==
    [][\A X \in Nodes \ Elems(_nodes) : (call'.op = "remove" /\ Remove(X)) =>
          /\ ret' = Self
          /\ UNCHANGED <<_nodes, _nodeKeys, _keyMap, _keys, nodeCount, keyCount>>]_vars

\* a remove has found nothing to delete on a populated ring with a built index
C9_Witness ==
    call.op = "remove" /\ call.removed = 0 /\ nodeCount > 0 /\ _keys # NullKeys

\* how many entries of the parallel lists hold node and points together
PairCount(nodes, nodeKeys, node, points) ==
    Cardinality({i \in 1 .. Len(nodes) :
                    i <= Len(nodeKeys) /\ nodes[i] = node /\ nodeKeys[i] = points})

\* C10: _nodes, _nodeKeys and nodeCount agree in length, add appends the node
\* together with the point list it registers and leaves the other entries in
\* place, and no other step pairs a node with a list it was not registered
\* with.
C10_Aligned ==
    /\ [](Len(_nodes) = Len(_nodeKeys) /\ Len(_nodes) = nodeCount)
    /\ [][IF call'.op = "add"
          THEN /\ Len(_nodes') = Len(_nodes) + 1
               /\ Len(_nodeKeys') = Len(_nodeKeys) + 1
               /\ \A i \in 1 .. Len(_nodes) :
                      _nodes'[i] = _nodes[i] /\ _nodeKeys'[i] = _nodeKeys[i]
               /\ \A node \in Nodes, n0 \in Weights, points \in PointLists :
                      AddPoints(node, n0, points) =>
                          /\ _nodes'[Len(_nodes')] = node
                          /\ _nodeKeys'[Len(_nodeKeys')] = points
          ELSE /\ Len(_nodes') = Len(_nodeKeys')
               /\ \A i \in 1 .. Len(_nodes') :
                      PairCount(_nodes', _nodeKeys', _nodes'[i], _nodeKeys'[i])
                          <= PairCount(_nodes, _nodeKeys, _nodes'[i], _nodeKeys'[i])]_vars

\* a remove has deleted one of two registrations and the other one is left
C10_Witness ==
    /\ call.op = "remove" /\ call.removed = 1
    /\ Len(_nodes) = 1 /\ Len(_nodeKeys[1]) = 2

\* C11: a node that get returns has a current registration.
C11_GetReturnsRegistered ==
    (call.op = "get" /\ ret \in Nodes) => ret \in Elems(_nodes)

\* C12: every control point of every current registration is a key of _keyMap,
\* and _keyMap maps it to a node that is registered now with a point list that
\* holds it.
C12_KeyMapCoversPoints ==
    \A i \in 1 .. Len(_nodes) : \A p \in Elems(_nodeKeys[i]) :
        /\ _keyMap[p] # Undefined
        /\ \E j \in 1 .. Len(_nodes) :
               _nodes[j] = _keyMap[p] /\ p \in Elems(_nodeKeys[j])

IsAscending(array) ==
    \A i \in 1 .. (Len(array) - 1) : array[i] <= array[i + 1]

\* how often v occurs in array
Occurrences(array, v) == Cardinality({i \in 1 .. Len(array) : array[i] = v})

\* C13: a present sorted index is ascending and holds every control point of
\* _nodeKeys as often as the lists hold it; add, and remove when it deletes a
\* registration, leave the index absent.
C13_IndexFresh ==
    /\ [](_keys # NullKeys =>
            /\ IsAscending(_keys)
            /\ Len(_keys) = Len(AllPoints)
            /\ \A v \in PointValues :
                   Occurrences(_keys, v) = Occurrences(AllPoints, v))
    /\ [][(call'.op = "add" \/ (call'.op = "remove" /\ call'.removed >= 1))
            => _keys' = NullKeys]_vars

\* get has built the index of two registrations, one of them with a point list
\* that is not ascending
C13_Witness ==
    /\ call.op = "get" /\ _keys # NullKeys /\ Len(_keys) >= 3
    /\ \E i \in 1 .. Len(_nodeKeys) : ~IsAscending(_nodeKeys[i])

\* C19: remove(X) keeps, for every other node and every point list, the number
\* of entries that pair that node with that list.
C19_RemoveKeepsOthers ==
    [][\A X \in Nodes : (call'.op = "remove" /\ Remove(X)) =>
          /\ Len(_nodes') = Len(_nodeKeys')
          /\ \A i \in 1 .. Len(_nodes) : _nodes[i] # X =>
                 PairCount(_nodes', _nodeKeys', _nodes[i], _nodeKeys[i])
                     = PairCount(_nodes, _nodeKeys, _nodes[i], _nodeKeys[i])
          /\ \A i \in 1 .. Len(_nodes') : _nodes'[i] # X =>
                 PairCount(_nodes', _nodeKeys', _nodes'[i], _nodeKeys'[i])
                     = PairCount(_nodes, _nodeKeys, _nodes'[i], _nodeKeys'[i])]_vars

\* a remove has deleted a registration listed before one of another node, which
\* is left with its one control point
C19_Witness ==
    /\ call.op = "remove" /\ call.removed >= 1
    /\ Len(_nodes) = 1 /\ Len(_nodeKeys[1]) = 1

\* _makeControlPoints is running and has chosen at least one point
Chosen == frame.fn = "_makeControlPoints" /\ frame.i >= 1

\* C14: a point whose chosen value was already a key of _keyMap took 10 draws
\* of its own, whatever the earlier points of the batch took.
C14_BudgetPerPoint == (Chosen /\ frame.used) => frame.took = RetryLimit

\* C15: a point chosen with the value of an earlier point of the same batch
\* was chosen with the retry budget used up.
C15_NoRepeatInBatch == (Chosen /\ frame.twice) => frame.attemptCount >= RetryLimit

\* C16: no point takes more than 10 draws, a running add(node, n) returns, and
\* when it returns it gives back the ring with a registration of n points.
C16_AddReturns ==
    /\ [](frame.fn = "_makeControlPoints" =>
            frame.draws < RetryLimit /\ frame.took <= RetryLimit)
    /\ [][AllocReturn =>
            /\ ret' = Self
            /\ nodeCount' = nodeCount + 1
            /\ _nodes'[Len(_nodes')] = frame.node
            /\ Len(_nodeKeys'[Len(_nodeKeys')]) = frame.n]_vars
    /\ (frame.fn = "_makeControlPoints") ~> (frame = Idle /\ call.op = "add")

\* every position of the ring is a key of _keyMap and add has chosen the two
\* points of a batch, the first after ten draws
C16_Witness ==
    /\ \A key \in PointValues : _keyMap[key] # Undefined
    /\ frame.fn = "_makeControlPoints" /\ frame.n = 2 /\ frame.i = 2
    /\ frame.attemptCount > RetryLimit

\* C17: the list that add(node, n) registers has n entries, one when the
\* weight is omitted, each an integer of 0 .. _range - 1.
C17_ExactlyN ==
    [][AllocReturn =>
          LET list == _nodeKeys'[Len(_nodeKeys')]
          IN  /\ Len(list) = IF frame.n0 = 0 THEN 1 ELSE frame.n0
              /\ \A j \in 1 .. Len(list) : list[j] \in 0 .. (_range - 1)]_vars

\* an add has returned with a list of two drawn points
C17_Witness ==
    /\ call.op = "add" /\ frame = Idle
    /\ Len(_nodeKeys) = 1 /\ Len(_nodeKeys[1]) = 2

\* the index a scan from the left gives: of the first entry that is >= key,
\* 0 when there is none, -1 for the empty array
LinearScan(array, key) ==
    LET hits == {i \in 0 .. (Len(array) - 1) : array[i + 1] >= key}
    IN  IF Len(array) = 0 THEN -1
        ELSE IF hits = {} THEN 0
        ELSE CHOOSE i \in hits : \A k \in hits : i <= k

\* C18: on an ascending array, duplicates and lengths above the gap of 25
\* included, _absearch returns the index a scan from the left returns.
C18_SearchIsLinearScan ==
    frame.fn = "_absearch" => frame.result = LinearScan(frame.array, frame.key)

\* the bisection has run twice and the index found lies past the gap, at the
\* first of several entries equal to the key
C18_Witness ==
    /\ frame.fn = "_absearch"
    /\ Len(frame.array) > 2 * Gap + 2
    /\ frame.result > Gap
    /\ frame.result + 2 <= Len(frame.array)
    /\ frame.array[frame.result + 1] = frame.key
    /\ frame.array[frame.result + 2] = frame.key

\* C20: the hash is never negative, in no round of its loop; what it returns
\* is the function _hash of the string alone, 0 for the empty string, and its
\* remainder by _range is a position of 0 .. _range - 1.
C20_HashNonNegative ==
    frame.fn = "_hash" =>
        /\ frame.h >= 0
        /\ frame.returned =>
              /\ frame.h = _hash(frame.s)
              /\ frame.s = <<>> => frame.h = 0
              /\ JsRem(frame.h, _range) \in 0 .. (_range - 1)

\* the hash of a string has been returned with bit 28 set: the four bits
\* 24 .. 27 were folded back and a carry went past them (0x10000000 = 268435456)
C20_Witness ==
    /\ frame.fn = "_hash" /\ frame.returned
    /\ Len(frame.s) >= 4
    /\ frame.h >= 268435456

====
